---- MODULE Spec2Model ----
(***************************************************************************)
(* Session-state synchronisation of the AcademiaTalk front end: the entry  *)
(* page (login / register), the forum page and the profile page, their     *)
(* localStorage cache, the requests they have in flight, their timers and  *)
(* the navigations they request.                                           *)
(***************************************************************************)
EXTENDS Integers, Sequences, FiniteSets, TLC

\* ------------------------------------------------------------------ bounds
\* user-triggered handler invocations modelled per page load
MaxClicks == 2

\* ------------------------------------------------------- program constants
TitleMin == 5
TitleMax == 200
ContentMin == 10
ContentMax == 5000
NameMin == 3
NameMax == 100
EmailMax == 100
PasswordMin == 6
Unauthorized == 401

\* ----------------------------------------------------------------- strings
\* A string is  lead spaces, then pad copies of "a", then the characters of
\* body, then trail spaces.  body never starts or ends with a space.
MkStr(l, p, b, t) == [lead |-> l, pad |-> p, body |-> b, trail |-> t]

StrLen(s) == s.lead + s.pad + Len(s.body) + s.trail

CharAt(s, k) ==
    IF k <= s.lead THEN " "
    ELSE IF k <= s.lead + s.pad THEN "a"
    ELSE IF k <= s.lead + s.pad + Len(s.body) THEN s.body[k - s.lead - s.pad]
    ELSE " "

\* the input is used as typed
TrimForgotten(s) == s

\* String.prototype.trim
Trim(s) ==
    IF s.pad = 0 /\ s.body = <<>> THEN MkStr(0, 0, <<>>, 0)
    ELSE MkStr(0, s.pad, s.body, 0)

\* /^[^\s@]+@[^\s@]+\.[^\s@]+$/
isValidEmail(email) ==
    LET n == StrLen(email) IN
    /\ \A k \in 1..n : CharAt(email, k) # " "
    /\ \E i \in 1..n :
          /\ CharAt(email, i) = "@"
          /\ \A k \in 1..n : CharAt(email, k) = "@" => k = i
          /\ i > 1
          /\ \E j \in (i + 2)..(n - 1) : CharAt(email, j) = "."

\* ---------------------------------------------------------- localStorage
Null == <<>>
StoredTrue == <<"true">>
Keys == {"isLoggedIn", "user"}

getItem(c, k) == c[k]
setItem(c, k, v) == [c EXCEPT ![k] = v]
removeItem(c, k) == [c EXCEPT ![k] = Null]

EmptyCache == [k \in Keys |-> Null]

\* ------------------------------------------------------- server responses
Users == {"u1", "u2"}
NoData == "nodata"
PostLists == {"posts0", "posts1"}
Statuses == {200, Unauthorized, 500}

\* JSON.stringify(data.data); an absent data is stored by setItem as the
\* text "undefined"
JSONstringify(d) == IF d = NoData THEN <<"undefined">> ELSE <<"json", d>>

MkResp(k, st, su, d) == [kind |-> k, status |-> st, success |-> su, data |-> d]
NoResp == MkResp("none", 0, FALSE, NoData)

\* kind: "neterr" fetch rejected; "garbage" body is not JSON; "null" body is
\* the JSON value null; "object" body is a JSON object
Responses(payloads) ==
    {MkResp("neterr", 0, FALSE, NoData)}
    \cup {MkResp(k, st, FALSE, NoData) : k \in {"garbage", "null"}, st \in Statuses}
    \cup {MkResp("object", st, su, d) :
             st \in Statuses, su \in BOOLEAN, d \in payloads \cup {NoData}}

UserResponses == Responses(Users)
ListResponses == Responses(PostLists)
PlainResponses == Responses({})

\* await fetch(...) or await response.json() rejects
JsonThrows(r) == r.kind \in {"neterr", "garbage"}
\* ... or reading data.success throws because data is null
SuccessThrows(r) == JsonThrows(r) \/ r.kind = "null"

\* ------------------------------------------------------------------ state
Pages == {"index", "forum", "profile"}
Flows == {"guard", "logout", "listPosts", "createPost", "loadProfile",
          "login", "register", "verifySession"}
TimerKinds == {"expiry", "redirect"}

VARIABLES
    cache,         \* localStorage: isLoggedIn, user
    page,          \* the document that is loaded
    guard,         \* progress of the page's checkAuthentication
    handlers,      \* the page's submit / click handlers are attached
    inflight,      \* per flow, fetches awaiting their answer
    sent,          \* per flow, fetches issued on this page load
    clicks,        \* user-triggered handler invocations on this page load
    timers,        \* pending setTimeout callbacks
    nav,           \* pending window.location.href assignment
    navCount,      \* window.location.href assignments on this page load
    msg,           \* the message shown by showMessage
    postsView,     \* contents of postsContainer
    profileShown,  \* profileCard is displayed
    ev,            \* the handler step that ran last
    cacheBefore,   \* localStorage when that step began
    bounced        \* this document was reached by the navigation that a
                   \* rejecting checkAuthentication requested

vars == <<cache, page, guard, handlers, inflight, sent, clicks, timers, nav,
          navCount, msg, postsView, profileShown, ev, cacheBefore, bounced>>

pageVars == <<page, guard, handlers, inflight, sent, clicks, timers, nav,
              navCount, msg, postsView, profileShown>>

Zero(S) == [k \in S |-> 0]
Inc(f, k) == [f EXCEPT ![k] = @ + 1]
Dec(f, k) == [f EXCEPT ![k] = @ - 1]

NoMsg == [text |-> "", type |-> "none"]
Msg(text, type) == [text |-> text, type |-> type]
ServerMessage == "data.message"

Ev(flow, phase, resp, input) ==
    [flow |-> flow, phase |-> phase, resp |-> resp, input |-> input]

Step(flow, phase, resp, input) ==
    /\ ev' = Ev(flow, phase, resp, input)
    /\ cacheBefore' = cache
    /\ bounced' = IF flow \in {"commit", "open"}
                  THEN flow = "commit" /\ guard = "Rejected"
                  ELSE bounced

Init ==
    /\ cache = EmptyCache
    /\ page \in Pages
    /\ guard = "Unchecked"
    /\ handlers = FALSE
    /\ inflight = Zero(Flows)
    /\ sent = Zero(Flows)
    /\ clicks = 0
    /\ timers = Zero(TimerKinds)
    /\ nav = "none"
    /\ navCount = 0
    /\ msg = NoMsg
    /\ postsView = "blank"
    /\ profileShown = FALSE
    /\ ev = Ev("open", "load", NoResp, <<>>)
    /\ cacheBefore = EmptyCache
    /\ bounced = FALSE

\* a fresh document: nothing of the previous page's script survives
LoadPage(p) ==
    /\ page' = p
    /\ guard' = "Unchecked"
    /\ handlers' = FALSE
    /\ inflight' = Zero(Flows)
    /\ sent' = Zero(Flows)
    /\ clicks' = 0
    /\ timers' = Zero(TimerKinds)
    /\ nav' = "none"
    /\ navCount' = 0
    /\ msg' = NoMsg
    /\ postsView' = "blank"
    /\ profileShown' = FALSE
    /\ UNCHANGED cache

\* the browser commits the navigation requested through location.href
CommitNavigation ==
    /\ nav # "none"
    /\ LoadPage(nav)
    /\ Step("commit", "load", NoResp, <<>>)

\* the user opens a page by link or address
UserOpensPage(p) ==
    /\ LoadPage(p)
    /\ Step("open", "load", NoResp, <<>>)

\* the two removeItem calls every expiry / logout path makes
ClearSession(c) == removeItem(removeItem(c, "user"), "isLoggedIn")

Navigate(target) ==
    /\ nav' = target
    /\ navCount' = navCount + 1

\* a fetch is issued: one more request of that flow is awaiting its answer
Issue(f, flow) == Inc(f, flow)

\* ------------------------------------------------------------- forum page
\* the profile fetch is issued before the flag is looked at
ForumDOMContentLoadedFetchFirst ==
    /\ page = "forum" /\ guard = "Unchecked"
    /\ inflight' = Issue(inflight, "guard")
    /\ sent' = Issue(sent, "guard")
    /\ IF getItem(cache, "isLoggedIn") # StoredTrue
       THEN Navigate("index") /\ guard' = "Rejected"
       ELSE guard' = "Verifying" /\ UNCHANGED <<nav, navCount>>
    /\ Step("guard", "load", NoResp, <<>>)
    /\ UNCHANGED <<cache, page, handlers, clicks, timers, msg, postsView,
                   profileShown>>

\* DOMContentLoaded of forum.js up to the await inside checkAuthentication
ForumDOMContentLoaded ==
    /\ page = "forum" /\ guard = "Unchecked"
    /\ IF getItem(cache, "isLoggedIn") # StoredTrue
       THEN /\ Navigate("index")
            /\ guard' = "Rejected"
            /\ UNCHANGED <<inflight, sent>>
       ELSE /\ guard' = "Verifying"
            /\ inflight' = Issue(inflight, "guard")
            /\ sent' = Issue(sent, "guard")
            /\ UNCHANGED <<nav, navCount>>
    /\ Step("guard", "load", NoResp, <<>>)
    /\ UNCHANGED <<cache, page, handlers, clicks, timers, msg, postsView,
                   profileShown>>

\* when the check cannot be made the cached flag is trusted
ForumCheckAuthenticationDoneFailOpen(r) ==
    /\ page = "forum" /\ guard = "Verifying" /\ inflight["guard"] > 0
    /\ IF SuccessThrows(r)
       THEN /\ msg' = Msg("Failed to verify authentication", "error")
            /\ guard' = "Authorized"
            /\ inflight' = Issue(Dec(inflight, "guard"), "listPosts")
            /\ sent' = Issue(sent, "listPosts")
            /\ handlers' = TRUE
            /\ UNCHANGED <<cache, nav, navCount>>
       ELSE IF ~r.success
       THEN /\ cache' = ClearSession(cache)
            /\ Navigate("index")
            /\ guard' = "Rejected"
            /\ inflight' = Dec(inflight, "guard")
            /\ UNCHANGED <<msg, sent, handlers>>
       ELSE /\ guard' = "Authorized"
            /\ inflight' = Issue(Dec(inflight, "guard"), "listPosts")
            /\ sent' = Issue(sent, "listPosts")
            /\ handlers' = TRUE
            /\ UNCHANGED <<cache, nav, navCount, msg>>
    /\ Step("guard", "done", r, <<>>)
    /\ UNCHANGED <<page, clicks, timers, postsView, profileShown>>

\* the guard stores the record of a success answer
ForumCheckAuthenticationDoneRefresh(r) ==
    /\ page = "forum" /\ guard = "Verifying" /\ inflight["guard"] > 0
    /\ IF SuccessThrows(r)
       THEN /\ msg' = Msg("Failed to verify authentication", "error")
            /\ guard' = "Rejected"
            /\ inflight' = Dec(inflight, "guard")
            /\ UNCHANGED <<cache, nav, navCount, sent, handlers>>
       ELSE IF ~r.success
       THEN /\ cache' = ClearSession(cache)
            /\ Navigate("index")
            /\ guard' = "Rejected"
            /\ inflight' = Dec(inflight, "guard")
            /\ UNCHANGED <<msg, sent, handlers>>
       ELSE /\ guard' = "Authorized"
            /\ cache' = setItem(cache, "user", JSONstringify(r.data))
            /\ inflight' = Issue(Dec(inflight, "guard"), "listPosts")
            /\ sent' = Issue(sent, "listPosts")
            /\ handlers' = TRUE
            /\ UNCHANGED <<nav, navCount, msg>>
    /\ Step("guard", "done", r, <<>>)
    /\ UNCHANGED <<page, clicks, timers, postsView, profileShown>>

\* the catch branch redirects like the other rejections
ForumCheckAuthenticationDoneCatchRedirects(r) ==
    /\ page = "forum" /\ guard = "Verifying" /\ inflight["guard"] > 0
    /\ IF SuccessThrows(r)
       THEN /\ msg' = Msg("Failed to verify authentication", "error")
            /\ Navigate("index")
            /\ guard' = "Rejected"
            /\ inflight' = Dec(inflight, "guard")
            /\ UNCHANGED <<cache, sent, handlers>>
       ELSE IF ~r.success
       THEN /\ cache' = ClearSession(cache)
            /\ Navigate("index")
            /\ guard' = "Rejected"
            /\ inflight' = Dec(inflight, "guard")
            /\ UNCHANGED <<msg, sent, handlers>>
       ELSE /\ guard' = "Authorized"
            /\ inflight' = Issue(Dec(inflight, "guard"), "listPosts")
            /\ sent' = Issue(sent, "listPosts")
            /\ handlers' = TRUE
            /\ UNCHANGED <<cache, nav, navCount, msg>>
    /\ Step("guard", "done", r, <<>>)
    /\ UNCHANGED <<page, clicks, timers, postsView, profileShown>>

\* the rest of checkAuthentication and, when it returns true, the rest of
\* the DOMContentLoaded handler: loadPosts() up to its await, the handlers
ForumCheckAuthenticationDone(r) ==
    /\ page = "forum" /\ guard = "Verifying" /\ inflight["guard"] > 0
    /\ IF SuccessThrows(r)
       THEN /\ msg' = Msg("Failed to verify authentication", "error")
            /\ guard' = "Rejected"
            /\ inflight' = Dec(inflight, "guard")
            /\ UNCHANGED <<cache, nav, navCount, sent, handlers>>
       ELSE IF ~r.success
       THEN /\ cache' = ClearSession(cache)
            /\ Navigate("index")
            /\ guard' = "Rejected"
            /\ inflight' = Dec(inflight, "guard")
            /\ UNCHANGED <<msg, sent, handlers>>
       ELSE /\ guard' = "Authorized"
            /\ inflight' = Issue(Dec(inflight, "guard"), "listPosts")
            /\ sent' = Issue(sent, "listPosts")
            /\ handlers' = TRUE
            /\ UNCHANGED <<cache, nav, navCount, msg>>
    /\ Step("guard", "done", r, <<>>)
    /\ UNCHANGED <<page, clicks, timers, postsView, profileShown>>

\* a list request that fails in transport is sent again
LoadPostsDoneRetries(r) ==
    /\ page = "forum" /\ inflight["listPosts"] > 0
    /\ IF SuccessThrows(r) \/ (r.success /\ r.data = NoData)
       THEN /\ msg' = Msg("Failed to connect to server", "error")
            /\ postsView' = "failed"
            /\ IF sent["listPosts"] < MaxClicks + 2
               THEN sent' = Issue(sent, "listPosts") /\ UNCHANGED inflight
               ELSE inflight' = Dec(inflight, "listPosts") /\ UNCHANGED sent
       ELSE IF r.success
       THEN /\ postsView' = IF r.data = "posts0" THEN "noPosts" ELSE "posts"
            /\ inflight' = Dec(inflight, "listPosts")
            /\ UNCHANGED <<msg, sent>>
       ELSE /\ msg' = Msg(ServerMessage, "error")
            /\ postsView' = "failed"
            /\ inflight' = Dec(inflight, "listPosts")
            /\ UNCHANGED sent
    /\ Step("listPosts", "done", r, <<>>)
    /\ UNCHANGED <<cache, page, guard, handlers, clicks, timers, nav,
                   navCount, profileShown>>

\* loadPosts after its await
LoadPostsDone(r) ==
    /\ page = "forum" /\ inflight["listPosts"] > 0
    /\ inflight' = Dec(inflight, "listPosts")
    /\ IF SuccessThrows(r) \/ (r.success /\ r.data = NoData)
       THEN /\ msg' = Msg("Failed to connect to server", "error")
            /\ postsView' = "failed"
       ELSE IF r.success
       THEN /\ postsView' = IF r.data = "posts0" THEN "noPosts" ELSE "posts"
            /\ UNCHANGED msg
       ELSE /\ msg' = Msg(ServerMessage, "error")
            /\ postsView' = "failed"
    /\ Step("listPosts", "done", r, <<>>)
    /\ UNCHANGED <<cache, page, guard, handlers, sent, clicks, timers, nav,
                   navCount, profileShown>>

\* handleCreatePost up to its await
handleCreatePost(titleIn, contentIn) ==
    LET title == Trim(titleIn)
        content == Trim(contentIn)
    IN
    /\ page = "forum" /\ handlers /\ clicks < MaxClicks
    /\ clicks' = clicks + 1
    /\ IF StrLen(title) < TitleMin \/ StrLen(title) > TitleMax
       THEN /\ msg' = Msg("Title must be between 5 and 200 characters", "error")
            /\ UNCHANGED <<inflight, sent>>
       ELSE IF StrLen(content) < ContentMin \/ StrLen(content) > ContentMax
       THEN /\ msg' = Msg("Content must be between 10 and 5000 characters", "error")
            /\ UNCHANGED <<inflight, sent>>
       ELSE /\ inflight' = Issue(inflight, "createPost")
            /\ sent' = Issue(sent, "createPost")
            /\ UNCHANGED msg
    /\ Step("createPost", "invoke", NoResp, <<titleIn, contentIn>>)
    /\ UNCHANGED <<cache, page, guard, handlers, timers, nav, navCount,
                   postsView, profileShown>>

\* the post list is not loaded again after a successful creation
handleCreatePostDoneNoReload(r) ==
    /\ page = "forum" /\ inflight["createPost"] > 0
    /\ inflight' = Dec(inflight, "createPost")
    /\ IF SuccessThrows(r)
       THEN /\ msg' = Msg("Failed to create post. Please try again.", "error")
            /\ UNCHANGED timers
       ELSE IF r.success
       THEN /\ msg' = Msg(ServerMessage, "success")
            /\ UNCHANGED timers
       ELSE IF r.status = Unauthorized
       THEN /\ msg' = Msg("Session expired. Please login again.", "error")
            /\ timers' = Inc(timers, "expiry")
       ELSE /\ msg' = Msg(ServerMessage, "error")
            /\ UNCHANGED timers
    /\ Step("createPost", "done", r, <<>>)
    /\ UNCHANGED <<cache, page, guard, handlers, sent, clicks, nav, navCount,
                   postsView, profileShown>>

\* a 401 clears the session and redirects at once, without the delay
handleCreatePostDoneNoGrace(r) ==
    /\ page = "forum" /\ inflight["createPost"] > 0
    /\ IF SuccessThrows(r)
       THEN /\ msg' = Msg("Failed to create post. Please try again.", "error")
            /\ inflight' = Dec(inflight, "createPost")
            /\ UNCHANGED <<sent, timers, cache, nav, navCount>>
       ELSE IF r.success
       THEN /\ msg' = Msg(ServerMessage, "success")
            /\ inflight' = Issue(Dec(inflight, "createPost"), "listPosts")
            /\ sent' = Issue(sent, "listPosts")
            /\ UNCHANGED <<timers, cache, nav, navCount>>
       ELSE IF r.status = Unauthorized
       THEN /\ msg' = Msg("Session expired. Please login again.", "error")
            /\ cache' = ClearSession(cache)
            /\ Navigate("index")
            /\ inflight' = Dec(inflight, "createPost")
            /\ UNCHANGED <<sent, timers>>
       ELSE /\ msg' = Msg(ServerMessage, "error")
            /\ inflight' = Dec(inflight, "createPost")
            /\ UNCHANGED <<sent, timers, cache, nav, navCount>>
    /\ Step("createPost", "done", r, <<>>)
    /\ UNCHANGED <<page, guard, handlers, clicks, postsView, profileShown>>

\* handleCreatePost after its await
handleCreatePostDone(r) ==
    /\ page = "forum" /\ inflight["createPost"] > 0
    /\ IF SuccessThrows(r)
       THEN /\ msg' = Msg("Failed to create post. Please try again.", "error")
            /\ inflight' = Dec(inflight, "createPost")
            /\ UNCHANGED <<sent, timers>>
       ELSE IF r.success
       THEN /\ msg' = Msg(ServerMessage, "success")
            /\ inflight' = Issue(Dec(inflight, "createPost"), "listPosts")
            /\ sent' = Issue(sent, "listPosts")
            /\ UNCHANGED timers
       ELSE IF r.status = Unauthorized
       THEN /\ msg' = Msg("Session expired. Please login again.", "error")
            /\ timers' = Inc(timers, "expiry")
            /\ inflight' = Dec(inflight, "createPost")
            /\ UNCHANGED sent
       ELSE /\ msg' = Msg(ServerMessage, "error")
            /\ inflight' = Dec(inflight, "createPost")
            /\ UNCHANGED <<sent, timers>>
    /\ Step("createPost", "done", r, <<>>)
    /\ UNCHANGED <<cache, page, guard, handlers, clicks, nav, navCount,
                   postsView, profileShown>>

\* the setTimeout callback of the session-expired branches
ExpiryTimer ==
    /\ timers["expiry"] > 0
    /\ timers' = Dec(timers, "expiry")
    /\ cache' = ClearSession(cache)
    /\ Navigate("index")
    /\ Step("expiry", "timer", NoResp, <<>>)
    /\ UNCHANGED <<page, guard, handlers, inflight, sent, clicks, msg,
                   postsView, profileShown>>

\* the cache is cleared as soon as logout is clicked
handleLogoutClearsFirst ==
    /\ page \in {"forum", "profile"} /\ handlers /\ clicks < MaxClicks
    /\ clicks' = clicks + 1
    /\ cache' = ClearSession(cache)
    /\ inflight' = Issue(inflight, "logout")
    /\ sent' = Issue(sent, "logout")
    /\ Step("logout", "invoke", NoResp, <<>>)
    /\ UNCHANGED <<page, guard, handlers, timers, nav, navCount, msg,
                   postsView, profileShown>>

\* handleLogout of either privileged page up to its await
handleLogout ==
    /\ page \in {"forum", "profile"} /\ handlers /\ clicks < MaxClicks
    /\ clicks' = clicks + 1
    /\ inflight' = Issue(inflight, "logout")
    /\ sent' = Issue(sent, "logout")
    /\ Step("logout", "invoke", NoResp, <<>>)
    /\ UNCHANGED <<cache, page, guard, handlers, timers, nav, navCount, msg,
                   postsView, profileShown>>

\* the catch branch only logs the error
handleLogoutDoneCatchOnlyLogs(r) ==
    /\ page \in {"forum", "profile"} /\ inflight["logout"] > 0
    /\ inflight' = Dec(inflight, "logout")
    /\ IF (page = "forum" /\ JsonThrows(r)) \/ (page = "profile" /\ r.kind = "neterr")
       THEN UNCHANGED <<cache, nav, navCount>>
       ELSE cache' = ClearSession(cache) /\ Navigate("index")
    /\ Step("logout", "done", r, <<>>)
    /\ UNCHANGED <<page, guard, handlers, sent, clicks, timers, msg,
                   postsView, profileShown>>

\* a logout with nothing left in the cache returns without redirecting
handleLogoutDoneSkipsWhenCleared(r) ==
    /\ page \in {"forum", "profile"} /\ inflight["logout"] > 0
    /\ inflight' = Dec(inflight, "logout")
    /\ IF cache = EmptyCache
       THEN UNCHANGED <<cache, nav, navCount>>
       ELSE cache' = ClearSession(cache) /\ Navigate("index")
    /\ Step("logout", "done", r, <<>>)
    /\ UNCHANGED <<page, guard, handlers, sent, clicks, timers, msg,
                   postsView, profileShown>>

\* handleLogout after its await: forum.js parses the body, the profile page
\* does not; the try branch and the catch branch do the same
handleLogoutDone(r) ==
    /\ page \in {"forum", "profile"} /\ inflight["logout"] > 0
    /\ inflight' = Dec(inflight, "logout")
    /\ IF (page = "forum" /\ JsonThrows(r)) \/ (page = "profile" /\ r.kind = "neterr")
       THEN cache' = ClearSession(cache) /\ Navigate("index")
       ELSE cache' = ClearSession(cache) /\ Navigate("index")
    /\ Step("logout", "done", r, <<>>)
    /\ UNCHANGED <<page, guard, handlers, sent, clicks, timers, msg,
                   postsView, profileShown>>

\* ----------------------------------------------------------- profile page
\* DOMContentLoaded of the profile page: checkAuthentication is synchronous
\* there; then loadProfile() up to its await, then the logout handler
ProfileDOMContentLoaded ==
    /\ page = "profile" /\ guard = "Unchecked"
    /\ IF getItem(cache, "isLoggedIn") # StoredTrue
       THEN /\ Navigate("index")
            /\ guard' = "Rejected"
            /\ UNCHANGED <<inflight, sent, handlers>>
       ELSE /\ guard' = "Authorized"
            /\ inflight' = Issue(inflight, "loadProfile")
            /\ sent' = Issue(sent, "loadProfile")
            /\ handlers' = TRUE
            /\ UNCHANGED <<nav, navCount>>
    /\ Step("guard", "load", NoResp, <<>>)
    /\ UNCHANGED <<cache, page, clicks, timers, msg, postsView, profileShown>>

\* a success answer also sets the logged-in flag
loadProfileDoneSetsFlag(r) ==
    /\ page = "profile" /\ inflight["loadProfile"] > 0
    /\ inflight' = Dec(inflight, "loadProfile")
    /\ IF SuccessThrows(r) \/ (r.success /\ r.data = NoData)
       THEN /\ msg' = Msg("Failed to load profile information", "error")
            /\ UNCHANGED <<cache, profileShown, timers>>
       ELSE IF r.success
       THEN /\ profileShown' = TRUE
            /\ cache' = setItem(setItem(cache, "user", JSONstringify(r.data)),
                                "isLoggedIn", StoredTrue)
            /\ UNCHANGED <<msg, timers>>
       ELSE IF r.status = Unauthorized
       THEN /\ msg' = Msg("Session expired. Please login again.", "error")
            /\ timers' = Inc(timers, "expiry")
            /\ UNCHANGED <<cache, profileShown>>
       ELSE /\ msg' = Msg(ServerMessage, "error")
            /\ UNCHANGED <<cache, profileShown, timers>>
    /\ Step("loadProfile", "done", r, <<>>)
    /\ UNCHANGED <<page, guard, handlers, sent, clicks, nav, navCount,
                   postsView>>

\* the data of a failure answer is stored as well
loadProfileDoneStoresOnFailure(r) ==
    /\ page = "profile" /\ inflight["loadProfile"] > 0
    /\ inflight' = Dec(inflight, "loadProfile")
    /\ IF SuccessThrows(r) \/ (r.success /\ r.data = NoData)
       THEN /\ msg' = Msg("Failed to load profile information", "error")
            /\ UNCHANGED <<cache, profileShown, timers>>
       ELSE IF r.success
       THEN /\ profileShown' = TRUE
            /\ cache' = setItem(cache, "user", JSONstringify(r.data))
            /\ UNCHANGED <<msg, timers>>
       ELSE IF r.status = Unauthorized
       THEN /\ msg' = Msg("Session expired. Please login again.", "error")
            /\ timers' = Inc(timers, "expiry")
            /\ UNCHANGED <<cache, profileShown>>
       ELSE /\ msg' = Msg(ServerMessage, "error")
            /\ cache' = setItem(cache, "user", JSONstringify(r.data))
            /\ UNCHANGED <<profileShown, timers>>
    /\ Step("loadProfile", "done", r, <<>>)
    /\ UNCHANGED <<page, guard, handlers, sent, clicks, nav, navCount,
                   postsView>>

\* loadProfile after its await
loadProfileDone(r) ==
    /\ page = "profile" /\ inflight["loadProfile"] > 0
    /\ inflight' = Dec(inflight, "loadProfile")
    /\ IF SuccessThrows(r) \/ (r.success /\ r.data = NoData)
       THEN /\ msg' = Msg("Failed to load profile information", "error")
            /\ UNCHANGED <<cache, profileShown, timers>>
       ELSE IF r.success
       THEN /\ profileShown' = TRUE
            /\ cache' = setItem(cache, "user", JSONstringify(r.data))
            /\ UNCHANGED <<msg, timers>>
       ELSE IF r.status = Unauthorized
       THEN /\ msg' = Msg("Session expired. Please login again.", "error")
            /\ timers' = Inc(timers, "expiry")
            /\ UNCHANGED <<cache, profileShown>>
       ELSE /\ msg' = Msg(ServerMessage, "error")
            /\ UNCHANGED <<cache, profileShown, timers>>
    /\ Step("loadProfile", "done", r, <<>>)
    /\ UNCHANGED <<page, guard, handlers, sent, clicks, nav, navCount,
                   postsView>>

\* ------------------------------------------------------------- entry page
\* the session is verified whatever the cached flag says
IndexDOMContentLoadedAlwaysVerifies ==
    /\ page = "index" /\ guard = "Unchecked"
    /\ guard' = "NoGuard"
    /\ handlers' = TRUE
    /\ inflight' = Issue(inflight, "verifySession")
    /\ sent' = Issue(sent, "verifySession")
    /\ Step("verifySession", "load", NoResp, <<>>)
    /\ UNCHANGED <<cache, page, clicks, timers, nav, navCount, msg, postsView,
                   profileShown>>

\* DOMContentLoaded of the entry page: checkLoginStatus, verifySession() up
\* to its await, then the two submit handlers
IndexDOMContentLoaded ==
    /\ page = "index" /\ guard = "Unchecked"
    /\ guard' = "NoGuard"
    /\ handlers' = TRUE
    /\ IF getItem(cache, "isLoggedIn") = StoredTrue
       THEN /\ inflight' = Issue(inflight, "verifySession")
            /\ sent' = Issue(sent, "verifySession")
       ELSE UNCHANGED <<inflight, sent>>
    /\ Step("verifySession", "load", NoResp, <<>>)
    /\ UNCHANGED <<cache, page, clicks, timers, nav, navCount, msg, postsView,
                   profileShown>>

\* a failure answer leaves the stale session in the cache
verifySessionDoneKeepsStale(r) ==
    /\ page = "index" /\ inflight["verifySession"] > 0
    /\ inflight' = Dec(inflight, "verifySession")
    /\ IF SuccessThrows(r)
       THEN UNCHANGED <<cache, nav, navCount>>
       ELSE IF r.success
       THEN Navigate("forum") /\ UNCHANGED cache
       ELSE UNCHANGED <<cache, nav, navCount>>
    /\ Step("verifySession", "done", r, <<>>)
    /\ UNCHANGED <<page, guard, handlers, sent, clicks, timers, msg,
                   postsView, profileShown>>

\* an answer that cannot be read is taken for an invalid session
verifySessionDoneCatchClears(r) ==
    /\ page = "index" /\ inflight["verifySession"] > 0
    /\ inflight' = Dec(inflight, "verifySession")
    /\ IF SuccessThrows(r)
       THEN cache' = ClearSession(cache) /\ UNCHANGED <<nav, navCount>>
       ELSE IF r.success
       THEN Navigate("forum") /\ UNCHANGED cache
       ELSE cache' = ClearSession(cache) /\ UNCHANGED <<nav, navCount>>
    /\ Step("verifySession", "done", r, <<>>)
    /\ UNCHANGED <<page, guard, handlers, sent, clicks, timers, msg,
                   postsView, profileShown>>

\* verifySession after its await
verifySessionDone(r) ==
    /\ page = "index" /\ inflight["verifySession"] > 0
    /\ inflight' = Dec(inflight, "verifySession")
    /\ IF SuccessThrows(r)
       THEN UNCHANGED <<cache, nav, navCount>>
       ELSE IF r.success
       THEN Navigate("forum") /\ UNCHANGED cache
       ELSE cache' = ClearSession(cache) /\ UNCHANGED <<nav, navCount>>
    /\ Step("verifySession", "done", r, <<>>)
    /\ UNCHANGED <<page, guard, handlers, sent, clicks, timers, msg,
                   postsView, profileShown>>

\* handleRegister up to its await
handleRegister(nameIn, emailIn, password) ==
    LET name == Trim(nameIn)
        email == Trim(emailIn)
    IN
    /\ page = "index" /\ handlers /\ clicks < MaxClicks
    /\ clicks' = clicks + 1
    /\ IF StrLen(name) < NameMin \/ StrLen(name) > NameMax
       THEN /\ msg' = Msg("Name must be between 3 and 100 characters", "error")
            /\ UNCHANGED <<inflight, sent>>
       ELSE IF ~isValidEmail(email) \/ StrLen(email) > EmailMax
       THEN /\ msg' = Msg("Please enter a valid email address", "error")
            /\ UNCHANGED <<inflight, sent>>
       ELSE IF StrLen(password) < PasswordMin
       THEN /\ msg' = Msg("Password must be at least 6 characters long", "error")
            /\ UNCHANGED <<inflight, sent>>
       ELSE /\ inflight' = Issue(inflight, "register")
            /\ sent' = Issue(sent, "register")
            /\ UNCHANGED msg
    /\ Step("register", "invoke", NoResp, <<nameIn, emailIn, password>>)
    /\ UNCHANGED <<cache, page, guard, handlers, timers, nav, navCount,
                   postsView, profileShown>>

\* a successful registration logs the user in
handleRegisterDoneLogsIn(r) ==
    /\ page = "index" /\ inflight["register"] > 0
    /\ inflight' = Dec(inflight, "register")
    /\ IF SuccessThrows(r)
       THEN /\ msg' = Msg("Failed to connect to server. Please try again later.", "error")
            /\ UNCHANGED cache
       ELSE IF r.success
       THEN /\ msg' = Msg("data.message Please login to continue.", "success")
            /\ cache' = setItem(setItem(cache, "user", JSONstringify(r.data)),
                                "isLoggedIn", StoredTrue)
       ELSE /\ msg' = Msg(ServerMessage, "error")
            /\ UNCHANGED cache
    /\ Step("register", "done", r, <<>>)
    /\ UNCHANGED <<page, guard, handlers, sent, clicks, timers, nav,
                   navCount, postsView, profileShown>>

\* handleRegister after its await
handleRegisterDone(r) ==
    /\ page = "index" /\ inflight["register"] > 0
    /\ inflight' = Dec(inflight, "register")
    /\ IF SuccessThrows(r)
       THEN msg' = Msg("Failed to connect to server. Please try again later.", "error")
       ELSE IF r.success
       THEN msg' = Msg("data.message Please login to continue.", "success")
       ELSE msg' = Msg(ServerMessage, "error")
    /\ Step("register", "done", r, <<>>)
    /\ UNCHANGED <<cache, page, guard, handlers, sent, clicks, timers, nav,
                   navCount, postsView, profileShown>>

\* handleLogin up to its await
handleLogin(emailIn, password) ==
    LET email == Trim(emailIn) IN
    /\ page = "index" /\ handlers /\ clicks < MaxClicks
    /\ clicks' = clicks + 1
    /\ IF ~isValidEmail(email)
       THEN /\ msg' = Msg("Please enter a valid email address", "error")
            /\ UNCHANGED <<inflight, sent>>
       ELSE IF StrLen(password) = 0
       THEN /\ msg' = Msg("Password is required", "error")
            /\ UNCHANGED <<inflight, sent>>
       ELSE /\ inflight' = Issue(inflight, "login")
            /\ sent' = Issue(sent, "login")
            /\ UNCHANGED msg
    /\ Step("login", "invoke", NoResp, <<emailIn, password>>)
    /\ UNCHANGED <<cache, page, guard, handlers, timers, nav, navCount,
                   postsView, profileShown>>

\* a successful login redirects at once, without the delay
handleLoginDoneNoDelay(r) ==
    /\ page = "index" /\ inflight["login"] > 0
    /\ inflight' = Dec(inflight, "login")
    /\ IF SuccessThrows(r)
       THEN /\ msg' = Msg("Failed to connect to server. Please try again later.", "error")
            /\ UNCHANGED <<cache, nav, navCount>>
       ELSE IF r.success
       THEN /\ cache' = setItem(setItem(cache, "user", JSONstringify(r.data)),
                                "isLoggedIn", StoredTrue)
            /\ msg' = Msg("data.message Redirecting...", "success")
            /\ Navigate("forum")
       ELSE /\ msg' = Msg(ServerMessage, "error")
            /\ UNCHANGED <<cache, nav, navCount>>
    /\ Step("login", "done", r, <<>>)
    /\ UNCHANGED <<page, guard, handlers, sent, clicks, timers, postsView,
                   profileShown>>

\* the record is stored but the flag is not
handleLoginDoneNoFlag(r) ==
    /\ page = "index" /\ inflight["login"] > 0
    /\ inflight' = Dec(inflight, "login")
    /\ IF SuccessThrows(r)
       THEN /\ msg' = Msg("Failed to connect to server. Please try again later.", "error")
            /\ UNCHANGED <<cache, timers>>
       ELSE IF r.success
       THEN /\ cache' = setItem(cache, "user", JSONstringify(r.data))
            /\ msg' = Msg("data.message Redirecting...", "success")
            /\ timers' = Inc(timers, "redirect")
       ELSE /\ msg' = Msg(ServerMessage, "error")
            /\ UNCHANGED <<cache, timers>>
    /\ Step("login", "done", r, <<>>)
    /\ UNCHANGED <<page, guard, handlers, sent, clicks, nav, navCount,
                   postsView, profileShown>>

\* handleLogin after its await
handleLoginDone(r) ==
    /\ page = "index" /\ inflight["login"] > 0
    /\ inflight' = Dec(inflight, "login")
    /\ IF SuccessThrows(r)
       THEN /\ msg' = Msg("Failed to connect to server. Please try again later.", "error")
            /\ UNCHANGED <<cache, timers>>
       ELSE IF r.success
       THEN /\ cache' = setItem(setItem(cache, "user", JSONstringify(r.data)),
                                "isLoggedIn", StoredTrue)
            /\ msg' = Msg("data.message Redirecting...", "success")
            /\ timers' = Inc(timers, "redirect")
       ELSE /\ msg' = Msg(ServerMessage, "error")
            /\ UNCHANGED <<cache, timers>>
    /\ Step("login", "done", r, <<>>)
    /\ UNCHANGED <<page, guard, handlers, sent, clicks, nav, navCount,
                   postsView, profileShown>>

\* the setTimeout callback of a successful login
RedirectTimer ==
    /\ timers["redirect"] > 0
    /\ timers' = Dec(timers, "redirect")
    /\ Navigate("forum")
    /\ Step("redirect", "timer", NoResp, <<>>)
    /\ UNCHANGED <<cache, page, guard, handlers, inflight, sent, clicks, msg,
                   postsView, profileShown>>

\* ------------------------------------------------------------ environment
\* no timeout is configured: a fetch may stay pending for ever
Hang(flow) ==
    /\ inflight[flow] > 0
    /\ inflight' = Dec(inflight, flow)
    /\ Step(flow, "hang", NoResp, <<>>)
    /\ UNCHANGED <<cache, page, guard, handlers, sent, clicks, timers, nav,
                   navCount, msg, postsView, profileShown>>

\* ----------------------------------------------------------------- inputs
Plain(n) == MkStr(0, n, <<>>, 0)
Padded(n) == MkStr(1, n, <<>>, 1)
Address(n) == MkStr(0, n, <<"@", "b", ".", "c">>, 0)

\* form inputs: the lengths on both sides of every limit, with and without
\* surrounding spaces, and addresses of every shape the pattern separates
Titles == {Plain(TitleMin - 1), Plain(TitleMin), Plain(TitleMax),
           Plain(TitleMax + 1), Padded(TitleMin - 1), Padded(TitleMax), Padded(0)}
Contents == {Plain(ContentMin - 1), Plain(ContentMin), Plain(ContentMax),
             Plain(ContentMax + 1), Padded(ContentMin - 1), Padded(ContentMax)}
Names == {Plain(NameMin - 1), Plain(NameMin), Plain(NameMax),
          Plain(NameMax + 1), Padded(NameMin - 1), Padded(NameMax)}
Emails == {Address(1), Address(0), Address(EmailMax - 4),
           Address(EmailMax - 3), MkStr(1, 1, <<"@", "b", ".", "c">>, 1),
           MkStr(0, 1, <<"@", "b">>, 0), MkStr(0, 1, <<".", "c">>, 0),
           MkStr(0, 1, <<"@", ".", "c">>, 0), MkStr(0, 1, <<"@", "b", ".">>, 0),
           MkStr(0, 1, <<"@", "@", "b", ".", "c">>, 0),
           MkStr(0, 1, <<" ", "@", "b", ".", "c">>, 0),
           MkStr(0, 1, <<"@", "b", ".", "c", ".", "d">>, 0)}
Passwords == {Plain(0), Plain(PasswordMin - 1), Plain(PasswordMin),
              MkStr(1, 0, <<>>, 0), MkStr(1, PasswordMin - 1, <<>>, 0)}

\* what the user types in the behaviours of Spec: one input that passes the
\* local validation and one that does not, per field
TypedTitles == {Plain(TitleMin), Padded(TitleMin - 1)}
TypedContents == {Plain(ContentMin), Plain(ContentMax + 1)}
TypedNames == {Padded(NameMin), Plain(NameMax + 1)}
TypedEmails == {Address(1), Address(0)}
TypedPasswords == {Plain(PasswordMin), Plain(0)}

Next ==
    \/ CommitNavigation
    \/ \E p \in Pages : UserOpensPage(p)
    \/ ForumDOMContentLoaded
    \/ \E r \in UserResponses : ForumCheckAuthenticationDone(r)
    \/ \E r \in ListResponses : LoadPostsDone(r)
    \/ \E t \in TypedTitles, c \in TypedContents : handleCreatePost(t, c)
    \/ \E r \in PlainResponses : handleCreatePostDone(r)
    \/ ExpiryTimer
    \/ handleLogout
    \/ \E r \in PlainResponses : handleLogoutDone(r)
    \/ ProfileDOMContentLoaded
    \/ \E r \in UserResponses : loadProfileDone(r)
    \/ IndexDOMContentLoaded
    \/ \E r \in UserResponses : verifySessionDone(r)
    \/ \E n \in TypedNames, e \in TypedEmails, p \in TypedPasswords : handleRegister(n, e, p)
    \/ \E r \in PlainResponses : handleRegisterDone(r)
    \/ \E e \in TypedEmails, p \in TypedPasswords : handleLogin(e, p)
    \/ \E r \in UserResponses : handleLoginDone(r)
    \/ RedirectTimer
    \/ \E f \in Flows : Hang(f)

Spec == Init /\ [][Next]_vars

\* every ready continuation is run by the event loop, every timer fires and
\* a requested navigation is committed; whether a fetch is answered at all is
\* up to the network (Hang)
Fairness ==
    /\ WF_vars(\E r \in PlainResponses : handleLogoutDone(r))
    /\ WF_vars(\E r \in PlainResponses : handleCreatePostDone(r))
    /\ WF_vars(\E r \in ListResponses : LoadPostsDone(r))
    /\ WF_vars(\E r \in UserResponses : loadProfileDone(r))
    /\ WF_vars(\E r \in UserResponses : ForumCheckAuthenticationDone(r))
    /\ WF_vars(\E r \in UserResponses : verifySessionDone(r))
    /\ WF_vars(\E r \in UserResponses : handleLoginDone(r))
    /\ WF_vars(\E r \in PlainResponses : handleRegisterDone(r))
    /\ WF_vars(ExpiryTimer)
    /\ WF_vars(RedirectTimer)
    /\ WF_vars(CommitNavigation)

LiveSpec == Init /\ [][Next]_vars /\ Fairness

\* ---------------------------------------------- the validation, by itself
\* a forum page whose guard has just authorised it, and a loaded entry page
InitInput ==
    /\ \/ /\ page = "forum"
          /\ cache = setItem(setItem(EmptyCache, "user", JSONstringify("u1")),
                             "isLoggedIn", StoredTrue)
          /\ guard = "Authorized"
          /\ inflight = Issue(Zero(Flows), "listPosts")
          /\ sent = Issue(Issue(Zero(Flows), "guard"), "listPosts")
          /\ ev = Ev("guard", "done", MkResp("object", 200, TRUE, "u1"), <<>>)
       \/ /\ page = "index"
          /\ cache = EmptyCache
          /\ guard = "NoGuard"
          /\ inflight = Zero(Flows)
          /\ sent = Zero(Flows)
          /\ ev = Ev("verifySession", "load", NoResp, <<>>)
    /\ handlers = TRUE
    /\ clicks = 0
    /\ timers = Zero(TimerKinds)
    /\ nav = "none"
    /\ navCount = 0
    /\ msg = NoMsg
    /\ postsView = "blank"
    /\ profileShown = FALSE
    /\ cacheBefore = cache
    /\ bounced = FALSE

NextInput ==
    \/ \E t \in Titles, c \in Contents : handleCreatePost(t, c)
    \/ \E r \in PlainResponses : handleCreatePostDone(r)
    \/ \E n \in Names, e \in Emails, p \in Passwords : handleRegister(n, e, p)
    \/ \E r \in PlainResponses : handleRegisterDone(r)

InputSpec == InitInput /\ [][NextInput]_vars

\* both states of InitInput are states of Spec
InputForumReached == ~(InitInput /\ page = "forum")
InputIndexReached == ~(InitInput /\ page = "index")

\* ================================================================ claims
LoggedIn(c) == getItem(c, "isLoggedIn") = StoredTrue
Ran(flow, phase) == ev.flow = flow /\ ev.phase = phase
\* the answer reports success / could not be read at all
Succeeded(r) == r.kind = "object" /\ r.success
Unreadable(r) == r.kind \in {"neterr", "garbage", "null"}
\* length of a string without its surrounding white space
CoreLen(s) == s.pad + Len(s.body)

\* C1: a login step whose answer reports success leaves loggedIn = true and
\* user = the serialised record of that answer; every other login step (the
\* submission, a failure answer, a transport failure) leaves both cache
\* entries as they were when the step began.
LoginCacheEffect ==
    ev.flow = "login" =>
        IF ev.phase = "done" /\ Succeeded(ev.resp)
        THEN /\ LoggedIn(cache)
             /\ getItem(cache, "user") = JSONstringify(ev.resp.data)
        ELSE cache = cacheBefore

LoginOkWitness ==
    /\ Ran("login", "done") /\ Succeeded(ev.resp) /\ ev.resp.data = "u2"
    /\ getItem(cacheBefore, "user") = JSONstringify("u1")

LoginFailedWitness ==
    /\ Ran("login", "done") /\ ~Succeeded(ev.resp) /\ cache # EmptyCache

\* C2: the logged-in flag is set exactly when a user record is present.
CachePairConsistent ==
    LoggedIn(cache) <=> getItem(cache, "user") # Null

\* C3: a privileged page loaded while the flag is not "true" is rejected at
\* once: no request sent or in flight, navigation to the entry page
\* requested, no handler attached, nothing displayed.
GuardWithoutFlag ==
    (page \in {"forum", "profile"} /\ Ran("guard", "load") /\ ~LoggedIn(cacheBefore)) =>
        /\ guard = "Rejected"
        /\ sent = Zero(Flows) /\ inflight = Zero(Flows)
        /\ nav = "index" /\ navCount = 1
        /\ ~handlers /\ postsView = "blank" /\ ~profileShown

GuardWithoutFlagWitness ==
    /\ page = "forum" /\ Ran("guard", "load")
    /\ ~LoggedIn(cacheBefore) /\ getItem(cacheBefore, "user") # Null

GuardWithoutFlagProfileWitness ==
    page = "profile" /\ Ran("guard", "load") /\ ~LoggedIn(cacheBefore)

\* C4: a 401 answer to the guard's profile fetch, whatever its body, ends
\* the guard Rejected with both cache entries removed and exactly one
\* navigation request.
Guard401Rejects ==
    (Ran("guard", "done") /\ ev.resp.status = Unauthorized) =>
        /\ guard = "Rejected"
        /\ cache = EmptyCache
        /\ nav = "index" /\ navCount = 1

\* C5 as stated: after a success answer to the guard's profile fetch the
\* cached user is the record of that answer.
GuardOkRefreshesCache ==
    (Ran("guard", "done") /\ Succeeded(ev.resp)) =>
        /\ guard = "Authorized"
        /\ LoggedIn(cache)
        /\ getItem(cache, "user") = JSONstringify(ev.resp.data)

\* C5: after a success answer to the guard's profile fetch the guard is
\* Authorized, the flag is still true and both cache entries are what they
\* were before the answer: the guard does not write the returned record.
GuardOkKeepsCache ==
    (Ran("guard", "done") /\ Succeeded(ev.resp)) =>
        /\ guard = "Authorized"
        /\ LoggedIn(cache)
        /\ cache = cacheBefore

GuardOkWitness ==
    /\ Ran("guard", "done") /\ Succeeded(ev.resp) /\ ev.resp.data = "u2"
    /\ getItem(cache, "user") = JSONstringify("u1")

LoggedOut == cache = EmptyCache /\ nav = "index"

\* C7 as stated: every logout invocation on a page that stays loaded is
\* eventually followed by a state with both cache entries removed and
\* navigation to the entry page requested, also when the remote call never
\* completes.
LogoutAlwaysLogsOut ==
    Ran("logout", "invoke") ~> (LoggedOut \/ ev.phase = "load")

\* C7: every logout invocation whose remote call is answered or fails while
\* its page is loaded ends, at that completion, with both cache entries
\* removed and navigation to the entry page requested, whatever the answer;
\* only a call that never completes, or leaving the page first, avoids it.
LogoutLogsOutWhenAnswered ==
    /\ [](Ran("logout", "done") => LoggedOut)
    /\ (inflight["logout"] > 0) ~>
          \/ Ran("logout", "done") /\ LoggedOut
          \/ Ran("logout", "hang")
          \/ ev.phase = "load"

LogoutFailedWitness ==
    Ran("logout", "done") /\ ev.resp.kind = "neterr" /\ LoggedOut
        /\ cacheBefore # EmptyCache

\* C8: every completion of a logout, the second one on a page as much as
\* the first, clears both cache entries and makes one more navigation
\* request to the entry page.
LogoutIdempotent ==
    [][(ev'.flow = "logout" /\ ev'.phase = "done") =>
          /\ cache' = EmptyCache
          /\ nav' = "index"
          /\ navCount' = navCount + 1]_vars

SecondLogoutWitness ==
    /\ Ran("logout", "done") /\ cacheBefore = EmptyCache
    /\ sent["logout"] = 2 /\ inflight["logout"] = 0 /\ navCount = 2

\* C9: a create-post request is issued exactly when the trimmed title has
\* 5..200 characters and the trimmed content 10..5000; a register request
\* exactly when the trimmed name has 3..100 characters, the trimmed email is
\* valid and at most 100 long, and the password has at least 6; a rejected
\* submission sends nothing, shows an error and leaves the cache alone.
CreatePostAccepts(t, c) ==
    /\ CoreLen(t) >= 5 /\ CoreLen(t) =< 200
    /\ CoreLen(c) >= 10 /\ CoreLen(c) =< 5000

RegisterAccepts(n, e, p) ==
    /\ CoreLen(n) >= 3 /\ CoreLen(n) =< 100
    /\ isValidEmail(MkStr(0, e.pad, e.body, 0)) /\ CoreLen(e) =< 100
    /\ StrLen(p) >= 6

ValidationGate ==
    [][ev'.phase = "invoke" /\ ev'.flow \in {"createPost", "register"} =>
          LET ok == IF ev'.flow = "createPost"
                    THEN CreatePostAccepts(ev'.input[1], ev'.input[2])
                    ELSE RegisterAccepts(ev'.input[1], ev'.input[2], ev'.input[3])
          IN IF ok
             THEN /\ sent' = Inc(sent, ev'.flow)
                  /\ inflight' = Inc(inflight, ev'.flow)
             ELSE /\ sent' = sent /\ inflight' = inflight
                  /\ msg'.type = "error"
                  /\ cache' = cache]_vars

ShortTitleWitness ==
    /\ Ran("createPost", "invoke") /\ ev.input[1] = Padded(TitleMin - 1)
    /\ sent["createPost"] = 0 /\ msg.type = "error"

LongEmailWitness ==
    /\ Ran("register", "invoke") /\ ev.input[2] = Address(EmailMax - 3)
    /\ ev.input[1] = Plain(NameMin) /\ sent["register"] = 0

\* C10: no step of a registration (submission, answer of any kind) changes a
\* cache entry, requests a navigation or starts a timer.
RegisterKeepsSession ==
    [][ev'.flow = "register" =>
          /\ cache' = cache
          /\ nav' = nav /\ navCount' = navCount
          /\ timers' = timers]_vars

RegisterOkWitness ==
    /\ Ran("register", "done") /\ Succeeded(ev.resp)
    /\ ~LoggedIn(cache) /\ nav = "none"

\* C11: in every flow but logout, an answer that could not be obtained or
\* read (network error, body that is not JSON, null body) leaves both cache
\* entries as they were; a logout clears them in that case too.
TransportFailureKeepsCache ==
    (ev.phase = "done" /\ Unreadable(ev.resp)) =>
        IF ev.flow = "logout" THEN cache = EmptyCache ELSE cache = cacheBefore

TransportFailureWitness ==
    /\ Ran("verifySession", "done") /\ ev.resp.kind = "neterr"
    /\ LoggedIn(cache) /\ getItem(cache, "user") # Null

\* the answer reports a failure, with / without the 401 status
Failed401(r) == r.kind = "object" /\ ~r.success /\ r.status = Unauthorized
FailedOther(r) == r.kind = "object" /\ ~r.success /\ r.status # Unauthorized
ExpiredMsg == Msg("Session expired. Please login again.", "error")

\* C12: a create-post answer that fails with status 401 shows the session
\* expired message and starts the grace delay with the cache and the pending
\* navigation untouched; the delay's callback, which runs unless the page is
\* left first, removes both cache entries and requests the entry page; a
\* failure with another status shows the server's message and neither starts
\* a delay nor touches the cache or the navigation.
CreatePostExpiry ==
    /\ [][(ev'.flow = "createPost" /\ ev'.phase = "done" /\ Failed401(ev'.resp)) =>
            /\ msg' = ExpiredMsg
            /\ timers' = Inc(timers, "expiry")
            /\ cache' = cache /\ nav' = nav /\ navCount' = navCount]_vars
    /\ [][(ev'.flow = "createPost" /\ ev'.phase = "done" /\ FailedOther(ev'.resp)) =>
            /\ msg' = Msg(ServerMessage, "error")
            /\ timers' = timers
            /\ cache' = cache /\ nav' = nav /\ navCount' = navCount]_vars
    /\ [][(page' = "forum" /\ ev'.flow = "expiry") =>
            /\ cache' = EmptyCache
            /\ nav' = "index" /\ navCount' = navCount + 1]_vars
    /\ (page = "forum" /\ timers["expiry"] > 0) ~>
            \/ Ran("expiry", "timer") /\ LoggedOut
            \/ ev.phase = "load"

CreatePostExpiryWitness ==
    /\ page = "forum" /\ Ran("expiry", "timer") /\ LoggedOut
    /\ LoggedIn(cacheBefore)

\* C13: a privileged page loaded with the flag set sends one profile request
\* in its load step; the first list-posts request of a page load and the
\* attaching of the forum's handlers happen only in the step that receives a
\* success answer to the guard's request, the profile is displayed only in
\* the step that receives a success answer to the profile request, and the
\* post container is written only by an answer to a list-posts request.
ServerConfirmsFirst ==
    [][/\ (page' \in {"forum", "profile"} /\ ev'.flow = "guard"
              /\ ev'.phase = "load" /\ LoggedIn(cache)) =>
            /\ sent'[IF page' = "forum" THEN "guard" ELSE "loadProfile"] = 1
            /\ sent'["listPosts"] = 0
            /\ postsView' = "blank" /\ ~profileShown'
       /\ (sent["listPosts"] = 0 /\ sent'["listPosts"] > 0) =>
            ev'.flow = "guard" /\ ev'.phase = "done" /\ Succeeded(ev'.resp)
       /\ (page' = "forum" /\ ~handlers /\ handlers') =>
            ev'.flow = "guard" /\ ev'.phase = "done" /\ Succeeded(ev'.resp)
       /\ (~profileShown /\ profileShown') =>
            ev'.flow = "loadProfile" /\ ev'.phase = "done" /\ Succeeded(ev'.resp)
       /\ (postsView' # postsView /\ postsView' # "blank") =>
            ev'.flow = "listPosts" /\ ev'.phase = "done" /\ sent["listPosts"] > 0
      ]_vars

ServerConfirmsFirstWitness ==
    /\ page = "forum" /\ Ran("listPosts", "done") /\ postsView = "posts"
    /\ sent["guard"] = 1 /\ guard = "Authorized"

\* C14: the user entry is written only by the step that receives a success
\* answer to a login or profile request, and what is written is the
\* serialised data of that answer; as the cache starts empty, a user entry
\* present in the cache always came from such an answer.
UserWrittenFromSuccess ==
    [][(getItem(cache', "user") # getItem(cache, "user")
            /\ getItem(cache', "user") # Null) =>
          /\ ev'.phase = "done" /\ ev'.flow \in {"login", "loadProfile"}
          /\ Succeeded(ev'.resp)
          /\ getItem(cache', "user") = JSONstringify(ev'.resp.data)]_vars

UserWrittenWitness ==
    /\ Ran("loadProfile", "done") /\ Succeeded(ev.resp)
    /\ getItem(cache, "user") = JSONstringify("u2")
    /\ getItem(cacheBefore, "user") = JSONstringify("u1")

\* C15: a step that submits a flow, loads a page or leaves a request
\* unanswered never changes the cache; the cache changes only in a step that
\* has an answer or failure in hand, or in a delay callback, and a delay is
\* only ever started by a step that has an answer in hand.
CacheChangesAfterAnswer ==
    [][/\ ev'.phase \in {"invoke", "load", "hang"} => cache' = cache
       /\ cache' # cache =>
            \/ ev'.phase = "done" /\ ev'.resp # NoResp
            \/ ev'.phase = "timer"
       /\ (\E k \in TimerKinds : timers'[k] > timers[k]) =>
            ev'.phase = "done" /\ ev'.resp.kind = "object"]_vars

CacheChangesAfterAnswerWitness ==
    /\ Ran("logout", "invoke") /\ inflight["logout"] = 1
    /\ LoggedIn(cache) /\ getItem(cache, "user") # Null

\* requests issued on this page load, over all endpoints
TotalSent(f) ==
    f["guard"] + f["logout"] + f["listPosts"] + f["createPost"]
        + f["loadProfile"] + f["login"] + f["register"] + f["verifySession"]

\* C16: a submission or page-load step sends at most one request; a step
\* that receives an answer sends nothing to the endpoint that answered, and
\* nothing at all unless the answer reports success; a delay callback or an
\* unanswered request sends nothing.
NoRetry ==
    [][/\ (ev'.phase \in {"invoke", "load"}) => TotalSent(sent') =< TotalSent(sent) + 1
       /\ (ev'.phase = "invoke") =>
            \A f \in Flows \ {ev'.flow} : sent'[f] = sent[f]
       /\ (ev'.phase = "done") =>
            /\ sent'[ev'.flow] = sent[ev'.flow]
            /\ inflight'[ev'.flow] = inflight[ev'.flow] - 1
            /\ ~Succeeded(ev'.resp) => sent' = sent
       /\ (ev'.phase \in {"timer", "hang"}) => sent' = sent]_vars

NoRetryWitness ==
    /\ Ran("listPosts", "done") /\ ev.resp.kind = "neterr"
    /\ sent["listPosts"] = 1 /\ inflight["listPosts"] = 0
    /\ postsView = "failed"

\* C17: on a page where a logout has cleared the cache and requested the
\* entry page, the answer to a request that was still in flight leaves both
\* cache entries absent.
LateAnswerKeepsCacheCleared ==
    [][(page \in {"forum", "profile"} /\ sent["logout"] > inflight["logout"]
            /\ cache = EmptyCache /\ nav = "index"
            /\ ev'.phase = "done") =>
          cache' = EmptyCache]_vars

\* C18: no step of a login (submission, answer) requests a navigation; the
\* step that receives a success answer writes both cache entries and starts
\* the redirect delay, no other login step starts it; the content page is
\* requested from the entry page only by that delay's callback or by the
\* load-time session verification.
LoginRedirectsAfterDelay ==
    [][/\ ev'.flow = "login" =>
            /\ nav' = nav /\ navCount' = navCount
            /\ IF ev'.phase = "done" /\ Succeeded(ev'.resp)
               THEN /\ timers' = Inc(timers, "redirect")
                    /\ LoggedIn(cache') /\ getItem(cache', "user") # Null
               ELSE timers' = timers
       /\ timers'["redirect"] > timers["redirect"] =>
            ev'.flow = "login" /\ ev'.phase = "done" /\ Succeeded(ev'.resp)
       /\ (navCount' > navCount /\ nav' = "forum") =>
            \/ ev'.flow = "redirect" /\ ev'.phase = "timer" /\ timers["redirect"] > 0
            \/ ev'.flow = "verifySession" /\ ev'.phase = "done"]_vars

LoginRedirectWitness ==
    /\ Ran("redirect", "timer") /\ nav = "forum" /\ navCount = 1
    /\ LoggedIn(cache) /\ sent["login"] = 1

\* C19: a load-profile success answer carrying a record replaces the cached
\* user by that record and leaves the flag as it was; a failure answer with
\* status 401 shows the session expired message and starts the delay whose
\* callback removes both entries and requests the entry page; any other
\* failure answer, and an answer that cannot be read, leave the cache alone
\* and start nothing; no load-profile step itself requests a navigation.
LoadProfileOutcomes ==
    [][/\ (ev'.flow = "loadProfile" /\ ev'.phase = "done") =>
            /\ nav' = nav /\ navCount' = navCount
            /\ IF Succeeded(ev'.resp) /\ ev'.resp.data \in Users
               THEN /\ cache' = setItem(cache, "user", JSONstringify(ev'.resp.data))
                    /\ getItem(cache', "isLoggedIn") = getItem(cache, "isLoggedIn")
                    /\ timers' = timers
               ELSE IF Failed401(ev'.resp)
               THEN /\ msg' = ExpiredMsg
                    /\ timers' = Inc(timers, "expiry")
                    /\ cache' = cache
               ELSE cache' = cache /\ timers' = timers
       /\ (page' = "profile" /\ ev'.flow = "expiry") =>
            /\ cache' = EmptyCache
            /\ nav' = "index" /\ navCount' = navCount + 1]_vars

LoadProfileExpiryWitness ==
    /\ page = "profile" /\ Ran("expiry", "timer") /\ LoggedOut
    /\ LoggedIn(cacheBefore)

LoadProfileRefreshWitness ==
    /\ Ran("loadProfile", "done") /\ Succeeded(ev.resp) /\ ev.resp.data = "u2"
    /\ ~LoggedIn(cache) /\ getItem(cache, "user") = JSONstringify("u2")

\* C20: the step that receives a success answer to a create-post sends one
\* list-posts request; a create-post step of any other kind sends none; no
\* create-post step changes the post container, which only an answer to a
\* list-posts request (or a new page) changes.
CreatePostReloadsList ==
    [][/\ ev'.flow = "createPost" =>
            /\ postsView' = postsView
            /\ IF ev'.phase = "done" /\ Succeeded(ev'.resp)
               THEN /\ sent'["listPosts"] = sent["listPosts"] + 1
                    /\ inflight'["listPosts"] = inflight["listPosts"] + 1
               ELSE /\ sent'["listPosts"] = sent["listPosts"]
                    /\ inflight'["listPosts"] = inflight["listPosts"]
       /\ postsView' # postsView =>
            \/ ev'.flow = "listPosts" /\ ev'.phase = "done"
            \/ ev'.phase = "load"]_vars

CreatePostReloadWitness ==
    /\ Ran("createPost", "done") /\ Succeeded(ev.resp)
    /\ sent["listPosts"] = 2 /\ inflight["listPosts"] = 1
    /\ postsView = "noPosts"

\* C21: a guard rejection that requests the entry page leaves the flag not
\* true and committing the navigation keeps the cache, so the entry page
\* reached that way sends no verification request and requests nothing at
\* load; from then on that page requests a navigation only through the
\* redirect delay of a successful login.  On any entry page the content page
\* is requested only by that delay or by a success answer to the
\* verification request, which is sent only at load with the flag true.
NoRedirectLoop ==
    [][/\ (page \in {"forum", "profile"} /\ ev'.flow = "guard"
              /\ guard' = "Rejected" /\ nav' = "index") => ~LoggedIn(cache')
       /\ ev'.flow = "commit" => cache' = cache
       /\ (bounced' /\ ev'.flow = "verifySession" /\ ev'.phase = "load") =>
            /\ ~LoggedIn(cache)
            /\ sent' = Zero(Flows) /\ inflight' = Zero(Flows)
            /\ nav' = "none" /\ navCount' = 0
       /\ (bounced /\ navCount' > navCount) =>
            /\ ev'.flow = "redirect" /\ nav' = "forum"
            /\ sent["login"] > 0
       /\ (page = "index" /\ page' = "index" /\ navCount' > navCount) =>
            /\ nav' = "forum"
            /\ \/ ev'.flow = "redirect" /\ timers["redirect"] > 0
               \/ /\ ev'.flow = "verifySession" /\ ev'.phase = "done"
                  /\ Succeeded(ev'.resp) /\ sent["verifySession"] = 1
       /\ sent'["verifySession"] > sent["verifySession"] =>
            /\ ev'.flow = "verifySession" /\ ev'.phase = "load"
            /\ LoggedIn(cache)]_vars

BouncedEntryWitness ==
    /\ bounced /\ page = "index" /\ Ran("verifySession", "load")
    /\ sent = Zero(Flows) /\ nav = "none" /\ cache = EmptyCache

BouncedThenLoginWitness ==
    bounced /\ Ran("redirect", "timer") /\ nav = "forum" /\ LoggedIn(cache)

\* C22: the entry page's load step sends nothing and changes nothing when
\* the flag is not true, and sends exactly one profile request when it is;
\* the step that receives the answer sends nothing more and, on success,
\* requests the content page with the cache unchanged; on a failure answer,
\* removes both cache entries and requests no navigation; on an answer that
\* cannot be obtained or read, leaves cache, navigation and message alone.
EntryPageCheck ==
    [][/\ (ev'.flow = "verifySession" /\ ev'.phase = "load") =>
            /\ cache' = cache /\ nav' = nav /\ navCount' = navCount
            /\ msg' = msg /\ timers' = timers
            /\ IF LoggedIn(cache)
               THEN /\ sent' = Inc(Zero(Flows), "verifySession")
                    /\ inflight' = Inc(Zero(Flows), "verifySession")
               ELSE sent' = Zero(Flows) /\ inflight' = Zero(Flows)
       /\ (ev'.flow = "verifySession" /\ ev'.phase = "done") =>
            /\ sent' = sent /\ sent["verifySession"] = 1
            /\ IF Succeeded(ev'.resp)
               THEN /\ nav' = "forum" /\ navCount' = navCount + 1
                    /\ cache' = cache
               ELSE IF Unreadable(ev'.resp)
               THEN /\ cache' = cache
                    /\ nav' = nav /\ navCount' = navCount
                    /\ msg' = msg
               ELSE /\ cache' = EmptyCache
                    /\ nav' = nav /\ navCount' = navCount]_vars

EntryPageCheckWitness ==
    /\ Ran("verifySession", "done")
    /\ ev.resp.kind = "object" /\ ~ev.resp.success
    /\ LoggedIn(cacheBefore) /\ cache = EmptyCache /\ nav = "none"

EntryPageConfirmedWitness ==
    /\ Ran("verifySession", "done") /\ Succeeded(ev.resp)
    /\ nav = "forum" /\ LoggedIn(cache)
====
